---- MODULE Spec2Model ----
(***************************************************************************)
(* The session manager of the OpenCard SDK (src/src/core/OpenCardClient.js) *)
(* as a state machine: the page-wide registry window.__OPENCARD_INSTANCES,  *)
(* the manager instances, the ensureFresh() calls in progress, the token    *)
(* endpoint's answers, the BroadcastChannel and the browser storage.        *)
(*                                                                          *)
(* One step of the model is one turn of the event loop: a handler runs      *)
(* with every promise continuation (microtask) it makes runnable.  Time is  *)
(* counted in minutes; Date.now() is the variable now.                      *)
(***************************************************************************)
EXTENDS Integers, Sequences, FiniteSets, TLC

Null == "null"               \* null or undefined where a string is expected
None == 0                    \* null or undefined where a number or a token is expected
Absent == [absent |-> TRUE]  \* null where an object is expected

\* ---- bounds of the model ----
MaxTime == 3        \* the clock runs 1..MaxTime
MaxIssue == 2       \* access tokens the authorization server issues in one run
MaxInbox == 1       \* undelivered BroadcastChannel messages per manager
MaxInstances == 2   \* instances the registry of the configuration pages holds
MaxRegistrations == 2   \* onAuthResume() calls on one wrapper
MaxTimers == 1      \* pending debounce timers of the message listener, per manager

\* ---- program constants (minutes) ----
FiveMinutes == 5        \* fiveMinutesInMs = 5 * 60 * 1000
RotationWindow == 1     \* (Date.now() - lastSessionRotation) < 60000
EphemeralDefault == 5   \* tokens.ephemeral_expires_in || 300
MaxAttempts == 2        \* for (attempt = 1; attempt <= 2; attempt++)
MaxPolls == 100         \* while (refreshInProgress && attempts < 100)
STATE_VERSION == 1      \* OpenCard.STATE_VERSION
EXPIRY_MS == 5          \* OpenCard.EXPIRY_MS = 5 * 60 * 1000

\* ---- inputs ----
Managers == {"k1", "k2"}            \* instance keys getInstanceKey(config)
CallerOrder == <<"c1", "c2", "c3">>  \* ensureFresh() invocations alive at once
Callers == {CallerOrder[i] : i \in DOMAIN CallerOrder}
ExpiresInChoices == {1, 6}          \* expires_in of a token response, minutes
Statuses == {200, 400, 401, 403, 500}
\* what the error body reads as: a neutral text, the empty string, a text
\* telling of an expired session or invalid grant, a body that could not be
\* read, a text holding the words "Failed to fetch"
BodyKinds == {"neutral", "empty", "expired", "unreadable", "fetchfail"}
Users == {"alice"}
States == {"s1", "s2"}              \* values generateState() can return
Paths == {"/", "/app"}
ResumeCallbacks == {"cb1", "cb2"}   \* functions the app passes to onAuthResume()
Requests == {"r1", "r2"}            \* {method, path, body} of a request
\* strings are sequences of these pieces, none of which is a prefix of another,
\* so two sequences are equal exactly when the strings are.  <<>> is '' or an
\* option that is not given
AuthUrls == {<<>>, <<"a">>, <<"a", "-", "b">>}        \* config.authUrl
ClientIds ==                                          \* config.clientId
  {<<>>, <<"c">>, <<"b", "-", "c">>, <<"c", "_dev">>, <<"c", "_prod">>}
Configs == {[authUrl |-> a, clientId |-> c] : a \in AuthUrls, c \in ClientIds}

\* ---- Session ----
\* tokens are the serial numbers 1..MaxIssue of the server's answers; expiry
\* times are minutes >= 1, so that None reads as 0 in a comparison as null does
EmptySession ==
  [accessToken |-> None, accessExpires |-> None, ephemeralKey |-> None,
   ephemeralExpires |-> None, user |-> Null]

\* session.accessToken && session.accessExpires > Date.now()
HasValidToken(s, t) == s.accessToken # None /\ s.accessExpires > t

\* the timeRemaining > fiveMinutesInMs test of ensureFresh
SkipsRefresh(s, t) ==
  HasValidToken(s, t) /\ s.accessExpires - t > FiveMinutes

VARIABLES
  now,                  \* Date.now()
  clients,              \* keys of window.__OPENCARD_INSTANCES.clients
  session,              \* client.session, per manager
  hasSessionMetadata,   \* client.hasSessionMetadata
  refreshInProgress,    \* client.refreshInProgress
  lastSessionRotation,  \* client.lastSessionRotation
  globalSession,        \* window.__OPENCARD_INSTANCES.globalSession
  refreshLock,          \* window.__OPENCARD_INSTANCES.refreshLock
  waiters,              \* per refresh promise, the calls awaiting it, in order
  sessionMeta,          \* localStorage opencard_session_meta
  pkce,                 \* sessionStorage opencard_code_verifier/state/return_url
  location,             \* window.location
  inbox,                \* BroadcastChannel messages not yet handled, per manager
  calls,                \* the ensureFresh() invocations
  issued,               \* tokens the authorization server has issued
  callback,             \* the handleRedirectCallback() invocation of this page
  login,                \* the redirectToLogin() invocation of this page
  isDev,                \* isDevelopmentEnvironment() of the host of the page
  registry,             \* window.__OPENCARD_INSTANCES.clients with its instances
  constructed,          \* the last `new OpenCardClient(config)` and its result
  authStatus,           \* what the last checkAuthStatus() returned, and to whom
  debounce,             \* pending setTimeout callbacks of the message listener
  openaiResult,         \* how the last createOpenAIClient() ended, and for whom
  pending,              \* sessionStorage opencard_pending, parsed
  authSuccess,          \* the URL carries the opencard_auth_success parameter
  authCallbacks,        \* OpenCard._authCallbacks of the wrapper of this page
  resumeCheck,          \* the deferred _checkAuthResume() of that wrapper
  delivered,            \* per resume callback, the requests it was called with
  retrieved             \* the last _retrieveRequest(): what it found, when,
                        \* and what it returned

vars == <<now, clients, session, hasSessionMetadata, refreshInProgress,
          lastSessionRotation, globalSession, refreshLock, waiters, sessionMeta,
          pkce, location, inbox, calls, issued, callback, login,
          isDev, registry, constructed, authStatus, debounce,
          openaiResult, pending, authSuccess, authCallbacks, resumeCheck,
          delivered, retrieved>>

\* the URL of the page and the login and callback invocations it runs
pageVars == <<location, callback, login>>
\* the instances by configuration and the host they depend on
registryVars == <<isDev, registry, constructed>>
\* all that belongs to the OpenCardClient managers of the page
clientVars ==
  <<clients, session, hasSessionMetadata, refreshInProgress, lastSessionRotation,
    globalSession, refreshLock, waiters, sessionMeta, pkce, inbox, calls, issued,
    callback, login, isDev, registry, constructed, authStatus, debounce,
    openaiResult>>
\* the OpenCard wrapper of the page and its saved request
resumeVars ==
  <<pending, authSuccess, authCallbacks, resumeCheck, delivered, retrieved>>

\* ---- values ----
FreeLock == [isLocked |-> FALSE, currentRefreshPromise |-> Null]
NoPKCE == [verifier |-> Null, state |-> Null, returnUrl |-> Absent]
NoParams == [code |-> Null, state |-> Null, error |-> Null]
\* an ensureFresh() invocation: where it stands (pc, attempt, polls, awaiting)
\* and what it has seen so far: the requests it sent (reqs), how it settled
\* (outcome, authErr, ret), how its first failed attempt was classified (first),
\* its last answer (lastStatus: 1 for a fetch() that threw) and the user the
\* Session held when the refresh gave up (userPre); origin tells who made the
\* call and holds its promise: the app, the message listener's timer
\* ("listener") or authenticate()
IdleCall ==
  [pc |-> "idle", mgr |-> Null, attempt |-> 0, polls |-> 0, awaiting |-> Null,
   reqs |-> 0, outcome |-> Null, authErr |-> FALSE, ret |-> Absent,
   first |-> Null, lastStatus |-> None, userPre |-> Null, origin |-> "app"]
\* the handleRedirectCallback() invocation: pc is "exchange" while the token
\* request is out; outcome tells how the last invocation ended; profile is
\* set while the background /api/userinfo request is out; responseUser is the
\* user record in the body of the token response that ended the exchange
IdleCallback ==
  [pc |-> "idle", mgr |-> Null, outcome |-> Null, profile |-> FALSE,
   responseUser |-> Null]
\* the redirectToLogin() invocation, waiting for generateCodeChallenge()
IdleLogin == [pc |-> "idle", mgr |-> Null]
\* no construction yet on this page
NotConstructed == [request |-> Absent, instance |-> Absent]
\* the object checkAuthStatus() returns, without its session; mgr is the
\* manager that was asked, Null before the first call
AuthResult(m, a, n, h) ==
  [mgr |-> m, isAuthenticated |-> a, needsRefresh |-> n, hasTokens |-> h]
NotChecked == AuthResult(Null, FALSE, FALSE, FALSE)
\* createOpenAIClient() has not been called on this page.  Afterwards error
\* tells which of its two errors was thrown and apiKey what the client it
\* returned was configured with
NoClient == [mgr |-> Null, error |-> Null, apiKey |-> None]
\* _retrieveRequest() has not been called on this page
NotRetrieved == [envelope |-> Absent, at |-> None, request |-> Null]

RefreshPhases == {"fetch", "retryWait"}

\* ---- the part of the state a chain of continuations works on ----
World ==
  [session |-> session, hasSessionMetadata |-> hasSessionMetadata,
   refreshInProgress |-> refreshInProgress, globalSession |-> globalSession,
   refreshLock |-> refreshLock, waiters |-> waiters, sessionMeta |-> sessionMeta,
   pkce |-> pkce, inbox |-> inbox, calls |-> calls]

Install(w) ==
  /\ \A m \in Managers : Len(w.inbox[m]) <= MaxInbox
  /\ session' = w.session
  /\ hasSessionMetadata' = w.hasSessionMetadata
  /\ refreshInProgress' = w.refreshInProgress
  /\ globalSession' = w.globalSession
  /\ refreshLock' = w.refreshLock
  /\ waiters' = w.waiters
  /\ sessionMeta' = w.sessionMeta
  /\ pkce' = w.pkce
  /\ inbox' = w.inbox
  /\ calls' = w.calls

\* the message types the 'message' listener of the constructor has a branch for
HandledTypes == {"logout", "auth-updated", "session-updated"}

\* a faulty variant of postMessage(): the message reaches nobody
postMessageToNobody(w, from, msg) == w

\* this.channel.postMessage(msg): every other channel object of the page gets
\* it; a message of a type the listener has no branch for is dropped on arrival
postMessage(w, from, msg) ==
  IF msg.type \notin HandledTypes THEN w
  ELSE [w EXCEPT !.inbox = [r \in Managers |->
      IF r \in clients /\ r # from THEN Append(w.inbox[r], msg) ELSE w.inbox[r]]]

\* a faulty variant of saveSessionMetadata(): the access token is stored too
saveSessionMetadataWithToken(w, s, t) ==
  [w EXCEPT !.sessionMeta =
      [accessToken |-> s.accessToken,
       accessExpires |-> s.accessExpires, ephemeralExpires |-> s.ephemeralExpires,
       user |-> s.user, savedAt |-> t]]

saveSessionMetadata(w, s, t) ==
  [w EXCEPT !.sessionMeta =
      [accessExpires |-> s.accessExpires, ephemeralExpires |-> s.ephemeralExpires,
       user |-> s.user, savedAt |-> t]]

clearSession(w, m) ==
  [w EXCEPT !.session[m] = EmptySession,
            !.hasSessionMetadata[m] = FALSE,
            !.refreshInProgress[m] = FALSE,
            !.globalSession = Absent,
            !.sessionMeta = Absent]

clearPKCEParameters(w) == [w EXCEPT !.pkce = NoPKCE]

\* removes every localStorage and sessionStorage key holding "opencard",
\* "session" or "auth": the metadata key and the three PKCE keys (and the
\* wrapper's opencard_pending, which is empty wherever a manager refreshes here)
handleCookieMismatch(w) == [w EXCEPT !.sessionMeta = Absent, !.pkce = NoPKCE]

recoverSession(w, m, t) ==
  LET userInfo == w.session[m].user
      w1 == clearSession(handleCookieMismatch(w), m)
      w2 == IF userInfo # Null THEN [w1 EXCEPT !.session[m].user = userInfo] ELSE w1
  IN postMessage(w2, m, [type |-> "session-recovery-needed", session |-> Absent])

\* ---- ensureFresh() ----
\* globalLock.isLocked && globalLock.currentRefreshPromise
LockBusy(w) ==
  w.refreshLock.isLocked /\ w.refreshLock.currentRefreshPromise # Null

\* return this.session
ReturnSession(w, c) ==
  [w EXCEPT !.calls[c].pc = "done", !.calls[c].outcome = "resolved",
            !.calls[c].awaiting = Null,
            !.calls[c].ret = w.session[w.calls[c].mgr]]

\* the lock is taken and _performRefresh() runs up to its first await: the
\* first request is on its way and its promise is the lock's shared promise
StartRefresh(w, c) ==
  [w EXCEPT !.refreshLock = [isLocked |-> TRUE, currentRefreshPromise |-> c],
            !.refreshInProgress[w.calls[c].mgr] = TRUE,
            !.waiters[c] = <<>>,
            !.calls[c].pc = "fetch", !.calls[c].awaiting = Null,
            !.calls[c].attempt = 1, !.calls[c].reqs = 1]

\* ensureFresh() from the local deduplication on: the poll loop, the global
\* session sync, the five-minute test, the refresh
AfterLockCheck(w, c, t) ==
  LET m == w.calls[c].mgr IN
  IF w.refreshInProgress[m]
    THEN [w EXCEPT !.calls[c].pc = "poll", !.calls[c].awaiting = Null,
                   !.calls[c].polls = 0]
  ELSE IF w.globalSession # Absent /\ HasValidToken(w.globalSession, t)
    THEN ReturnSession([w EXCEPT !.session[m] = w.globalSession], c)
  ELSE IF SkipsRefresh(w.session[m], t)
    THEN ReturnSession(w, c)
  ELSE StartRefresh(w, c)

\* a faulty variant of ensureFresh(): the held lock is not looked at
ensureFreshIgnoringLock(w, c, t) == AfterLockCheck(w, c, t)

\* ensureFresh() up to its first await or its return
ensureFresh(w, c, t) ==
  IF LockBusy(w)
    THEN LET p == w.refreshLock.currentRefreshPromise IN
         [w EXCEPT !.calls[c].pc = "awaitShared", !.calls[c].awaiting = p,
                   !.waiters[p] = Append(w.waiters[p], c)]
    ELSE AfterLockCheck(w, c, t)

\* the continuation of `await globalLock.currentRefreshPromise` in one waiter
ResumeWaiter(w, d, ok, result, t) ==
  IF ok
    THEN ReturnSession(
           IF result.accessToken # None
             THEN [w EXCEPT !.session[w.calls[d].mgr] = result] ELSE w, d)
    ELSE AfterLockCheck(w, d, t)

\* the waiters of a settled promise run in the order they began to wait
RECURSIVE ResumeWaiters(_, _, _, _, _)
ResumeWaiters(w, ws, ok, result, t) ==
  IF ws = <<>> THEN w
  ELSE ResumeWaiters(ResumeWaiter(w, Head(ws), ok, result, t), Tail(ws), ok, result, t)

\* a faulty variant of the finally block: the registry's lock is left as it is
ReleaseFlagOnly(w, c) ==
  [w EXCEPT !.refreshInProgress[w.calls[c].mgr] = FALSE]

\* the finally block of ensureFresh()
ReleaseLock(w, c) ==
  [w EXCEPT !.refreshLock = FreeLock,
            !.refreshInProgress[w.calls[c].mgr] = FALSE]

\* the refresh promise of call c settles: c's own continuation runs first (it
\* began to await first), then the waiters
Settle(w, c, ok, result, t) ==
  LET ws == w.waiters[c]
      w1 == [ReleaseLock(w, c) EXCEPT !.waiters[c] = <<>>]
  IN ResumeWaiters(w1, ws, ok, result, t)

\* the token endpoint answered 2xx: lines 466-519 of _performRefresh
RefreshSucceeds(w, c, t, tok, expiresIn, hasKey) ==
  LET m == w.calls[c].mgr
      s == [accessToken |-> tok, accessExpires |-> t + expiresIn,
            ephemeralKey |-> IF hasKey THEN tok ELSE None,
            ephemeralExpires |-> t + EphemeralDefault,
            user |-> w.session[m].user]
      w1 == [w EXCEPT !.session[m] = s, !.globalSession = s]
      w2 == saveSessionMetadata(w1, s, t)
      w3 == postMessage(w2, m, [type |-> "session-updated", session |-> s])
      w4 == [w3 EXCEPT !.calls[c].pc = "done", !.calls[c].outcome = "resolved",
                       !.calls[c].ret = s]
  IN Settle(w4, c, TRUE, s, t)

\* every attempt failed: lines 554-571 of _performRefresh
RefreshFails(w, c, t, isAuthError) ==
  LET m == w.calls[c].mgr
      w1 == [w EXCEPT !.calls[c].userPre = w.session[m].user]
      w2 == IF isAuthError THEN recoverSession(w1, m, t) ELSE w1
      w3 == [w2 EXCEPT !.calls[c].pc = "done", !.calls[c].outcome = "rejected",
                       !.calls[c].authErr = isAuthError,
                       !.calls[c].ret = w2.session[m]]
  IN Settle(w3, c, FALSE, Absent, t)

\* ---- error classification of _performRefresh ----
\* errorData?.error === 'invalid_grant' || ... || errorText.includes('expired')
IsSessionExpired(kind) == kind = "expired"

\* response.status === 400 && (isSessionExpired || errorText === '' || unreadable)
Is400SessionError(status, kind) ==
  status = 400 /\ (IsSessionExpired(kind) \/ kind \in {"empty", "unreadable"})

\* error.name === 'TypeError' || error.message.includes('Failed to fetch');
\* status 1 stands for a fetch() that threw
IsNetworkError(status, kind) == status = 1 \/ kind = "fetchfail"

\* error.isAuthError as the catch block leaves it
IsAuthError(status, kind) ==
  /\ ~IsNetworkError(status, kind)
  /\ \/ status \in {401, 403}
     \/ IsSessionExpired(kind)
     \/ Is400SessionError(status, kind)

\* a faulty variant of the rotation test: any rotation ever recorded counts
RotationEverRecorded(rot, t) == rot # None

\* this.lastSessionRotation && (Date.now() - this.lastSessionRotation) < 60000
RecentRotation(rot, t) == rot # None /\ t - rot < RotationWindow

\* a faulty variant of the retry decision: a network error is not retried
RetriesAfterRotationOnly(attempt, status, kind, rot, t) ==
  /\ attempt = 1
  /\ attempt + 1 <= MaxAttempts
  /\ IsAuthError(status, kind) /\ rot # None /\ t - rot < RotationWindow

\* the catch block's decision to go round the loop once more
Retries(attempt, status, kind, rot, t) ==
  /\ attempt = 1
  /\ attempt + 1 <= MaxAttempts
  /\ \/ IsNetworkError(status, kind)
     \/ IsAuthError(status, kind) /\ RecentRotation(rot, t)

\* ---- the state at page load ----
CleanUrl(path) == [path |-> path, hash |-> NoParams, query |-> NoParams]

\* what localStorage can hold of an earlier visit: nothing, or the metadata of
\* a session of alice that is still running
StoredMetadata ==
  {Absent,
   [accessExpires |-> 2, ephemeralExpires |-> 2, user |-> "alice", savedAt |-> 0]}

\* the module is evaluated: an empty registry, no instance yet
Init ==
  /\ now = 1
  /\ clients = {}
  /\ session = [m \in Managers |-> EmptySession]
  /\ hasSessionMetadata = [m \in Managers |-> FALSE]
  /\ refreshInProgress = [m \in Managers |-> FALSE]
  /\ lastSessionRotation = [m \in Managers |-> None]
  /\ globalSession = Absent
  /\ refreshLock = FreeLock
  /\ waiters = [c \in Callers |-> <<>>]
  /\ sessionMeta \in StoredMetadata
  /\ pkce = NoPKCE
  /\ location = CleanUrl("/")
  /\ inbox = [m \in Managers |-> <<>>]
  /\ calls = [c \in Callers |-> IdleCall]
  /\ issued = 0
  /\ callback = IdleCallback
  /\ login = IdleLogin
  /\ isDev = FALSE
  /\ registry = {}
  /\ constructed = NotConstructed
  /\ authStatus = NotChecked
  /\ debounce = [m \in Managers |-> 0]
  /\ openaiResult = NoClient
  /\ pending = Absent
  /\ authSuccess = FALSE
  /\ authCallbacks = <<>>
  /\ resumeCheck = "none"
  /\ delivered = [cb \in ResumeCallbacks |-> <<>>]
  /\ retrieved = NotRetrieved

\* ---- actions ----
\* a settled call is looked at before anything else happens
NoneDone == \A c \in Callers : calls[c].pc # "done"

Tick ==
  /\ NoneDone
  /\ now < MaxTime
  /\ now' = now + 1
  /\ UNCHANGED <<registryVars, authStatus, openaiResult, resumeVars, debounce, clients, session, hasSessionMetadata, refreshInProgress,
                 lastSessionRotation, globalSession, refreshLock, waiters,
                 sessionMeta, pkce, inbox, calls, issued, pageVars>>

\* a faulty variant of the session initialisation: stored metadata is not
\* looked at
InitialSessionWithoutMetadata ==
  IF globalSession # Absent THEN globalSession ELSE EmptySession

\* the session a new instance starts with: lines 131-165 of the constructor
InitialSession ==
  IF globalSession # Absent THEN globalSession
  ELSE IF sessionMeta # Absent /\ sessionMeta.accessExpires # None
          /\ sessionMeta.accessExpires > now
    THEN [accessToken |-> None, accessExpires |-> sessionMeta.accessExpires,
          ephemeralKey |-> None, ephemeralExpires |-> sessionMeta.ephemeralExpires,
          user |-> sessionMeta.user]
  ELSE EmptySession

\* new OpenCardClient(config) for a key the registry does not hold yet
Construct(m) ==
  /\ NoneDone
  /\ location.path \in Paths
  /\ m \notin clients
  /\ clients' = clients \cup {m}
  /\ session' = [session EXCEPT ![m] = InitialSession]
  /\ hasSessionMetadata' = [hasSessionMetadata EXCEPT ![m] =
       globalSession = Absent /\ InitialSession # EmptySession]
  /\ UNCHANGED <<now, registryVars, authStatus, openaiResult, resumeVars, debounce, refreshInProgress, lastSessionRotation, globalSession,
                 refreshLock, waiters, sessionMeta, pkce, inbox, calls,
                 issued, pageVars>>

\* the lowest free slot takes the next call
FreeSlot == CallerOrder[CHOOSE i \in DOMAIN CallerOrder :
               /\ calls[CallerOrder[i]].pc = "idle"
               /\ \A j \in DOMAIN CallerOrder :
                     calls[CallerOrder[j]].pc = "idle" => i <= j]

\* client.ensureFresh() is called
CallEnsureFresh(m) ==
  /\ NoneDone
  /\ \E c \in Callers : calls[c].pc = "idle"
  /\ m \in clients
  /\ LET c == FreeSlot
         w0 == [World EXCEPT !.calls[c] = [IdleCall EXCEPT !.mgr = m]]
     IN Install(ensureFresh(w0, c, now))
  /\ UNCHANGED <<now, registryVars, authStatus, openaiResult, resumeVars, debounce, clients, lastSessionRotation, issued, pageVars>>

\* a faulty variant of the poll loop: at the ceiling the call does not give
\* up but refreshes by itself
PollTimerThenRefresh(c) ==
  /\ NoneDone
  /\ calls[c].pc = "poll"
  /\ calls[c].polls < MaxPolls
  /\ IF refreshInProgress[calls[c].mgr]
       THEN Install(StartRefresh([World EXCEPT !.calls[c].polls = MaxPolls], c))
       ELSE Install(ReturnSession([World EXCEPT !.calls[c].polls = calls[c].polls + 1], c))
  /\ UNCHANGED <<now, registryVars, authStatus, openaiResult, resumeVars, debounce, clients, lastSessionRotation, issued, pageVars>>

\* the poll loop of a call that found refreshInProgress set.  The rounds in
\* which the flag is still set change nothing but the counter; they are taken
\* together: either the flag is found cleared at the next round, or it stays
\* set for all the rounds that are left and the loop ends at the ceiling
PollTimer(c) ==
  /\ NoneDone
  /\ calls[c].pc = "poll"
  /\ calls[c].polls < MaxPolls
  /\ LET n == IF refreshInProgress[calls[c].mgr] THEN MaxPolls
              ELSE calls[c].polls + 1
     IN Install(ReturnSession([World EXCEPT !.calls[c].polls = n], c))
  /\ UNCHANGED <<now, registryVars, authStatus, openaiResult, resumeVars, debounce, clients, lastSessionRotation, issued, pageVars>>

\* trackSessionChanges(response): a Set-Cookie header of a session cookie
trackSessionChanges(w, m, rotated) ==
  IF rotated
    THEN postMessage(w, m, [type |-> "session-rotation-detected", session |-> Absent])
    ELSE w

\* how the catch block of _performRefresh reads a failed attempt
FailureClass(status, kind) ==
  IF IsNetworkError(status, kind) THEN "net"
  ELSE IF IsAuthError(status, kind) THEN "auth" ELSE "other"

\* an attempt failed with this status (1: fetch threw) and body: the catch block
AttemptFails(w, c, status, kind, rot) ==
  LET cl == calls[c]
      w0 == [w EXCEPT !.calls[c] =
               [cl EXCEPT !.lastStatus = status,
                  !.first = IF cl.first # Null THEN cl.first
                            ELSE FailureClass(status, kind)]]
  IN IF Retries(cl.attempt, status, kind, rot, now)
       THEN Install([w0 EXCEPT !.calls[c].pc = "retryWait"])
       ELSE Install(RefreshFails(w0, c, now, IsAuthError(status, kind)))

\* fetch() rejects: the request could not be sent or completed
FetchThrows(c) ==
  /\ NoneDone
  /\ calls[c].pc = "fetch"
  /\ AttemptFails(World, c, 1, "neutral", lastSessionRotation[calls[c].mgr])
  /\ UNCHANGED <<now, registryVars, authStatus, openaiResult, resumeVars, debounce, clients, lastSessionRotation, issued, pageVars>>

\* the token endpoint answers the refresh request of call c with an error
ErrorResponse(c, status, kind, rotated) ==
  /\ NoneDone
  /\ calls[c].pc = "fetch"
  /\ status # 200
  /\ LET m == calls[c].mgr
         rot == IF rotated THEN now ELSE lastSessionRotation[m]
     IN /\ lastSessionRotation' = [lastSessionRotation EXCEPT ![m] = rot]
        /\ AttemptFails(trackSessionChanges(World, m, rotated), c, status, kind, rot)
  /\ UNCHANGED <<now, registryVars, authStatus, openaiResult, resumeVars, debounce, clients, issued, pageVars>>

\* the token endpoint answers the refresh request of call c with tokens
TokenResponse(c, expiresIn, hasKey, rotated) ==
  /\ NoneDone
  /\ calls[c].pc = "fetch"
  /\ issued < MaxIssue
  /\ issued' = issued + 1
  /\ LET m == calls[c].mgr
     IN /\ lastSessionRotation' = [lastSessionRotation EXCEPT ![m] =
             IF rotated THEN now ELSE @]
        /\ LET w0 == trackSessionChanges(World, m, rotated)
               w1 == [w0 EXCEPT !.calls[c].lastStatus = 200]
           IN Install(RefreshSucceeds(w1, c, now, issued + 1, expiresIn, hasKey))
  /\ UNCHANGED <<now, registryVars, authStatus, openaiResult, resumeVars, debounce, clients, pageVars>>

\* the back-off timer of the retry fires: the second request is sent
RetryTimer(c) ==
  /\ NoneDone
  /\ calls[c].pc = "retryWait"
  /\ calls' = [calls EXCEPT ![c].pc = "fetch", ![c].attempt = @ + 1,
                            ![c].reqs = @ + 1]
  /\ UNCHANGED <<now, registryVars, authStatus, openaiResult, resumeVars, debounce, clients, session, hasSessionMetadata, refreshInProgress,
                 lastSessionRotation, globalSession, refreshLock, waiters,
                 sessionMeta, pkce, inbox, issued, pageVars>>

\* the settled calls whose rejection the catch of ensureAuthenticated() takes
SilentRefreshFailed ==
  {c \in Callers : calls[c].pc = "done" /\ calls[c].origin = "authenticate"
                     /\ calls[c].outcome = "rejected"}

\* the callers drop the settled promises; the slots serve later calls
Forget ==
  /\ ~NoneDone
  /\ SilentRefreshFailed = {}
  /\ calls' = [c \in Callers |-> IF calls[c].pc = "done" THEN IdleCall ELSE calls[c]]
  /\ UNCHANGED <<now, registryVars, authStatus, openaiResult, resumeVars, debounce, clients, session, hasSessionMetadata, refreshInProgress,
                 lastSessionRotation, globalSession, refreshLock, waiters,
                 sessionMeta, pkce, inbox, issued, pageVars>>

\* the 'message' listener of the constructor handles the oldest message
Deliver(m) ==
  /\ NoneDone
  /\ inbox[m] # <<>>
  /\ LET msg == Head(inbox[m])
         w0 == [World EXCEPT !.inbox[m] = Tail(inbox[m])]
     IN IF msg.type = "logout" THEN Install(clearSession(w0, m))
        ELSE IF msg.type = "session-updated" /\ msg.session # Absent
          THEN Install([w0 EXCEPT !.session[m] = msg.session,
                                  !.globalSession = msg.session])
        ELSE Install(w0)
  /\ LET msg == Head(inbox[m])
     IN IF msg.type = "auth-updated" /\ ~refreshInProgress[m]
          THEN /\ debounce[m] < MaxTimers
               /\ debounce' = [debounce EXCEPT ![m] = @ + 1]
          ELSE UNCHANGED debounce
  /\ UNCHANGED <<now, registryVars, authStatus, openaiResult, resumeVars, clients, lastSessionRotation,
                 issued, pageVars>>

\* the 200 ms timer of the listener's 'auth-updated' branch fires
DebounceTimer(m) ==
  /\ NoneDone
  /\ debounce[m] > 0
  /\ debounce' = [debounce EXCEPT ![m] = @ - 1]
  /\ IF refreshInProgress[m] THEN Install(World)
     ELSE /\ \E c \in Callers : calls[c].pc = "idle"
          /\ LET c == FreeSlot
                 w0 == [World EXCEPT !.calls[c] =
                          [IdleCall EXCEPT !.mgr = m, !.origin = "listener"]]
             IN Install(ensureFresh(w0, c, now))
  /\ UNCHANGED <<now, registryVars, authStatus, openaiResult, resumeVars, clients, lastSessionRotation,
                 issued, pageVars>>

\* the types of the messages this code posts on the channel, and the type its
\* listener has a branch for without a sender in this code
MessageTypes ==
  {"logout", "session-updated", "profile-updated", "session-rotation-detected",
   "session-recovery-needed", "auth-updated"}

\* another tab of the origin posts a message on the 'opencard' channel: the
\* listener of every manager of this page will run for it.  A 'session-updated'
\* message carries the Session that tab has just been given
TabMessage(type, expiresIn) ==
  /\ NoneDone
  /\ clients # {}
  /\ LET isSession == type = "session-updated"
         s == [accessToken |-> issued + 1, accessExpires |-> now + expiresIn,
               ephemeralKey |-> issued + 1,
               ephemeralExpires |-> now + EphemeralDefault, user |-> Null]
         msg == [type |-> type, session |-> IF isSession THEN s ELSE Absent]
     IN /\ isSession => issued < MaxIssue
        /\ issued' = IF isSession THEN issued + 1 ELSE issued
        /\ Install([World EXCEPT !.inbox = [r \in Managers |->
              IF r \in clients THEN Append(inbox[r], msg) ELSE inbox[r]]])
  /\ UNCHANGED <<now, registryVars, authStatus, openaiResult, resumeVars, debounce, clients,
                 lastSessionRotation, pageVars>>

\* checkAuthStatus(): the Session it leaves in this.session and the object it
\* returns, from the global session g, this.hasSessionMetadata, this.session
\* and Date.now()
checkAuthStatus(m, g, flag, s, t) ==
  IF g # Absent /\ g.accessToken # None /\ g.accessExpires > t
    THEN [session |-> g,
          result |-> AuthResult(m, TRUE, g.accessExpires < t + FiveMinutes, TRUE)]
  ELSE IF flag
    THEN [session |-> s, result |-> AuthResult(m, TRUE, TRUE, FALSE)]
  ELSE LET hasValidToken == HasValidToken(s, t)
           needsRefresh == hasValidToken /\ s.accessExpires < t + FiveMinutes
       IN [session |-> s,
           result |-> AuthResult(m, hasValidToken \/ flag,
                                 needsRefresh \/ ~hasValidToken \/ flag,
                                 hasValidToken)]

\* client.checkAuthStatus() is called
CheckAuthStatus(m) ==
  /\ NoneDone
  /\ m \in clients
  /\ LET r == checkAuthStatus(m, globalSession, hasSessionMetadata[m],
                              session[m], now)
     IN /\ session' = [session EXCEPT ![m] = r.session]
        /\ authStatus' = r.result
  /\ UNCHANGED <<now, registryVars, debounce, openaiResult, resumeVars, clients, hasSessionMetadata,
                 refreshInProgress, lastSessionRotation, globalSession,
                 refreshLock, waiters, sessionMeta, pkce, inbox, calls, issued,
                 pageVars>>

\* a faulty variant of createOpenAIClient(): the validity test looks at the
\* access token instead of the ephemeral key
createOpenAIClientByAccessToken(s, t) ==
  IF ~HasValidToken(s, t)
    THEN [error |-> "notAuthenticated", apiKey |-> None]
    ELSE [error |-> Null, apiKey |-> s.ephemeralKey]

\* createOpenAIClient(OpenAI): the error it throws, or the apiKey of the
\* client it constructs
createOpenAIClient(s, t) ==
  IF s.ephemeralKey = None
    THEN [error |-> "notAuthenticated", apiKey |-> None]
  ELSE IF s.ephemeralExpires <= t
    THEN [error |-> "keyExpired", apiKey |-> None]
  ELSE [error |-> Null, apiKey |-> s.ephemeralKey]

\* client.createOpenAIClient(OpenAI) is called
CreateOpenAIClient(m) ==
  /\ NoneDone
  /\ m \in clients
  /\ LET r == createOpenAIClient(session[m], now)
     IN openaiResult' = [mgr |-> m, error |-> r.error, apiKey |-> r.apiKey]
  /\ UNCHANGED <<now, registryVars, authStatus, resumeVars, debounce, clients,
                 session, hasSessionMetadata, refreshInProgress,
                 lastSessionRotation, globalSession, refreshLock, waiters,
                 sessionMeta, pkce, inbox, calls, issued, pageVars>>

\* a faulty variant of signOut(): the PKCE keys are left in sessionStorage
SignOutKeepingPKCE(m) ==
  /\ NoneDone
  /\ m \in clients
  /\ Install(postMessage(clearSession(World, m), m,
                         [type |-> "logout", session |-> Absent]))
  /\ UNCHANGED <<now, registryVars, authStatus, openaiResult, resumeVars, debounce, clients,
                 lastSessionRotation, issued, pageVars>>

\* client.signOut()
SignOut(m) ==
  /\ NoneDone
  /\ m \in clients
  /\ Install(postMessage(clearPKCEParameters(clearSession(World, m)), m,
                         [type |-> "logout", session |-> Absent]))
  /\ UNCHANGED <<now, registryVars, authStatus, openaiResult, resumeVars, debounce, clients, lastSessionRotation, issued, pageVars>>

\* ---- login: redirectToLogin() and handleRedirectCallback() ----
AtAuthServer == CleanUrl("authserver")

\* the parameters a callback URL carries, in its hash or in its query
CallbackParams ==
  {[code |-> "code", state |-> st, error |-> Null] : st \in States}
    \cup {[code |-> Null, state |-> Null, error |-> "access_denied"]}

\* the URLs the browser can load the page with
Urls ==
  {CleanUrl(p) : p \in Paths}
    \cup {[path |-> p, hash |-> cp, query |-> NoParams] :
            p \in Paths, cp \in CallbackParams}
    \cup {[path |-> p, hash |-> NoParams, query |-> cp] :
            p \in Paths, cp \in CallbackParams}

\* a document is loaded: the registry, the instances and what they had in
\* flight are gone; localStorage and sessionStorage stay
FreshPage(url) ==
  /\ location' = url
  /\ clients' = {}
  /\ session' = [m \in Managers |-> EmptySession]
  /\ hasSessionMetadata' = [m \in Managers |-> FALSE]
  /\ refreshInProgress' = [m \in Managers |-> FALSE]
  /\ lastSessionRotation' = [m \in Managers |-> None]
  /\ globalSession' = Absent
  /\ refreshLock' = FreeLock
  /\ waiters' = [c \in Callers |-> <<>>]
  /\ inbox' = [m \in Managers |-> <<>>]
  /\ calls' = [c \in Callers |-> IdleCall]
  /\ callback' = IdleCallback
  /\ login' = IdleLogin
  /\ registry' = {}
  /\ constructed' = NotConstructed
  /\ authStatus' = NotChecked
  /\ debounce' = [m \in Managers |-> 0]
  /\ openaiResult' = NoClient
  /\ authCallbacks' = <<>>
  /\ resumeCheck' = "none"
  /\ delivered' = [cb \in ResumeCallbacks |-> <<>>]
  /\ retrieved' = NotRetrieved

\* the browser loads the page: a reload, a link, the authorization server's
\* redirect back
LoadPage(url) ==
  /\ NoneDone
  /\ FreshPage(url)
  /\ authSuccess' = FALSE
  /\ UNCHANGED <<now, isDev, sessionMeta, pkce, issued, pending>>

\* redirectToLogin() up to `await generateCodeChallenge(codeVerifier)`
RedirectToLogin(m) ==
  /\ NoneDone
  /\ m \in clients
  /\ login.pc # "challenge"
  /\ login' = [pc |-> "challenge", mgr |-> m]
  /\ Install(clearPKCEParameters(World))
  /\ UNCHANGED <<now, registryVars, authStatus, openaiResult, resumeVars, debounce, clients, lastSessionRotation, issued, location, callback>>

\* redirectToLogin() from generateState() on: the three keys are stored and
\* the browser leaves for the authorization server
ChallengeReady(st) ==
  /\ NoneDone
  /\ login.pc = "challenge"
  /\ pkce' = [verifier |-> "verifier", state |-> st, returnUrl |-> location]
  /\ FreshPage(AtAuthServer)
  /\ authSuccess' = FALSE
  /\ UNCHANGED <<now, isDev, sessionMeta, issued, pending>>

\* redirectToLogin() from generateState() on, with a storage that refuses a
\* write (quota exceeded, storage disabled): one of the sessionStorage.setItem()
\* calls of lines 595-598 throws, nothing catches it, and the promise of
\* redirectToLogin() is rejected before the authorization URL is built.  The
\* keys written before the one that failed stay in storage
ChallengeReadyStorageThrows(st) ==
  /\ NoneDone
  /\ login.pc = "challenge"
  /\ login' = [login EXCEPT !.pc = "rejected"]
  /\ \E written \in 0..2 :
       pkce' = [verifier |-> IF written >= 1 THEN "verifier" ELSE pkce.verifier,
                state |-> IF written >= 2 THEN st ELSE pkce.state,
                returnUrl |-> pkce.returnUrl]
  /\ UNCHANGED <<now, registryVars, authStatus, openaiResult, resumeVars, debounce, clients, session,
                 hasSessionMetadata, refreshInProgress, lastSessionRotation,
                 globalSession, refreshLock, waiters, sessionMeta, inbox,
                 calls, issued, location, callback>>

\* code, state and error as handleRedirectCallback() reads them: from the hash
\* if there is one, from the query if the hash gave neither code nor error
ReadParams(url) ==
  LET h == url.hash
  IN IF h.code = Null /\ h.error = Null THEN url.query ELSE h

\* a faulty variant of handleRedirectCallback(): a URL without a code makes it
\* remove the PKCE keys before it returns
HandleRedirectCallbackClearing(m) ==
  /\ NoneDone
  /\ m \in clients
  /\ callback.pc = "idle"
  /\ LET p == ReadParams(location)
         ended(o) == callback' = [callback EXCEPT !.mgr = m, !.outcome = o]
     IN IF p.error # Null
          THEN ended("oauthError") /\ UNCHANGED <<location, pkce>>
        ELSE IF p.code = Null
          THEN ended("none") /\ pkce' = NoPKCE /\ UNCHANGED location
        ELSE /\ location' = CleanUrl(location.path)
             /\ UNCHANGED pkce
             /\ IF p.state # pkce.state THEN ended("csrf")
                ELSE IF pkce.verifier = Null THEN ended("noVerifier")
                ELSE callback' = [callback EXCEPT !.mgr = m, !.pc = "exchange",
                                                  !.outcome = Null]
  /\ UNCHANGED <<now, registryVars, authStatus, openaiResult, resumeVars, debounce, clients, session, hasSessionMetadata, refreshInProgress,
                 lastSessionRotation, globalSession, refreshLock, waiters,
                 sessionMeta, inbox, calls, issued, login>>

\* handleRedirectCallback() up to its first await or its end
HandleRedirectCallback(m) ==
  /\ NoneDone
  /\ m \in clients
  /\ callback.pc = "idle"
  /\ LET p == ReadParams(location)
         ended(o) == callback' = [callback EXCEPT !.mgr = m, !.outcome = o]
     IN IF p.error # Null
          THEN ended("oauthError") /\ UNCHANGED location
        ELSE IF p.code = Null
          THEN ended("none") /\ UNCHANGED location
        ELSE /\ location' = CleanUrl(location.path)
             /\ IF p.state # pkce.state THEN ended("csrf")
                ELSE IF pkce.verifier = Null THEN ended("noVerifier")
                ELSE callback' = [callback EXCEPT !.mgr = m, !.pc = "exchange",
                                                  !.outcome = Null]
  /\ UNCHANGED <<now, registryVars, authStatus, openaiResult, resumeVars, debounce, clients, session, hasSessionMetadata, refreshInProgress,
                 lastSessionRotation, globalSession, refreshLock, waiters,
                 sessionMeta, pkce, inbox, calls, issued, login>>

\* client.authenticate(skipSilentRefresh): handleRedirectCallback() first; if
\* that returned absent, redirectToLogin() for an explicit sign-in and else
\* ensureAuthenticated(), whose ensureFresh() runs up to its first await
Authenticate(m, skipSilentRefresh) ==
  IF ReadParams(location).code # Null \/ ReadParams(location).error # Null
    THEN HandleRedirectCallback(m)
  ELSE /\ NoneDone
       /\ m \in clients
       /\ callback.pc = "idle"
       /\ callback' = [callback EXCEPT !.mgr = m, !.outcome = "none"]
       /\ IF skipSilentRefresh
            THEN /\ login' = [pc |-> "challenge", mgr |-> m]
                 /\ Install(clearPKCEParameters(World))
            ELSE /\ \E c \in Callers : calls[c].pc = "idle"
                 /\ UNCHANGED login
                 /\ LET c == FreeSlot
                        w0 == [World EXCEPT !.calls[c] =
                                 [IdleCall EXCEPT !.mgr = m,
                                                  !.origin = "authenticate"]]
                    IN Install(ensureFresh(w0, c, now))
       /\ UNCHANGED <<now, registryVars, authStatus, openaiResult, resumeVars, debounce, clients,
                      lastSessionRotation, issued, location>>

\* the catch of ensureAuthenticated(): the silent refresh was rejected, and
\* redirectToLogin() runs up to `await generateCodeChallenge(codeVerifier)`
EnsureAuthenticatedCatch ==
  /\ SilentRefreshFailed # {}
  /\ login' = [pc |-> "challenge",
               mgr |-> calls[CHOOSE c \in SilentRefreshFailed : TRUE].mgr]
  /\ Install(clearPKCEParameters([World EXCEPT !.calls =
        [c \in Callers |-> IF calls[c].pc = "done" THEN IdleCall ELSE calls[c]]]))
  /\ UNCHANGED <<now, registryVars, authStatus, openaiResult, resumeVars, debounce, clients,
                 lastSessionRotation, issued, location, callback>>

\* exchangeCodeForTokens() resolves: lines 683-747 of handleRedirectCallback.
\* The tokens it returns carry no user; the return URL is read after
\* clearPKCEParameters() has removed it, so the page stays where it is
ExchangeSucceeds(expiresIn) ==
  /\ NoneDone
  /\ callback.pc = "exchange"
  /\ issued < MaxIssue
  /\ issued' = issued + 1
  /\ LET m == callback.mgr
         s == [accessToken |-> issued + 1, accessExpires |-> now + expiresIn,
               ephemeralKey |-> issued + 1,
               ephemeralExpires |-> now + EphemeralDefault, user |-> Null]
         w1 == [World EXCEPT !.session[m] = s, !.globalSession = s]
         w2 == clearPKCEParameters(saveSessionMetadata(w1, s, now))
     IN Install(postMessage(w2, m, [type |-> "session-updated", session |-> s]))
  /\ callback' = [callback EXCEPT !.pc = "idle", !.outcome = "session",
                                  !.profile = TRUE, !.responseUser = Null]
  /\ UNCHANGED <<now, registryVars, authStatus, openaiResult, resumeVars, debounce, clients, lastSessionRotation, location, login>>

\* exchangeCodeForTokens(params) of utils/auth.js, from the body of a 2xx
\* response on: the object it returns is built field by field and has no user
exchangeCodeForTokens(result) == [result EXCEPT !.user = Null]

\* exchangeCodeForTokens() resolves on a response whose body carries a user
\* record: lines 683-747 of handleRedirectCallback
ExchangeSucceedsWithUser(expiresIn, user) ==
  /\ NoneDone
  /\ callback.pc = "exchange"
  /\ issued < MaxIssue
  /\ issued' = issued + 1
  /\ LET m == callback.mgr
         tokens == exchangeCodeForTokens(
                     [access_token |-> issued + 1, expires_in |-> expiresIn,
                      ephemeral_key |-> issued + 1, user |-> user])
         s == [accessToken |-> tokens.access_token,
               accessExpires |-> now + tokens.expires_in,
               ephemeralKey |-> tokens.ephemeral_key,
               ephemeralExpires |-> now + EphemeralDefault,
               user |-> tokens.user]
         w1 == [World EXCEPT !.session[m] = s, !.globalSession = s]
         w2 == clearPKCEParameters(saveSessionMetadata(w1, s, now))
     IN Install(postMessage(w2, m, [type |-> "session-updated", session |-> s]))
  /\ callback' = [callback EXCEPT !.pc = "idle", !.outcome = "session",
                                  !.profile = TRUE, !.responseUser = user]
  /\ UNCHANGED <<now, registryVars, authStatus, openaiResult, resumeVars, debounce, clients, lastSessionRotation, location, login>>

\* exchangeCodeForTokens() rejects: the catch block of handleRedirectCallback
ExchangeFails ==
  /\ NoneDone
  /\ callback.pc = "exchange"
  /\ callback' = [callback EXCEPT !.pc = "idle", !.outcome = "exchangeFailed"]
  /\ Install(clearPKCEParameters(World))
  /\ UNCHANGED <<now, registryVars, authStatus, openaiResult, resumeVars, debounce, clients, lastSessionRotation, issued, location, login>>

\* /api/userinfo answers the request of fetchUserProfile()
ProfileResponse(ok, user) ==
  /\ NoneDone
  /\ callback.profile
  /\ callback' = [callback EXCEPT !.profile = FALSE]
  /\ LET m == callback.mgr
         w1 == [World EXCEPT !.session[m].user = user]
     IN IF ok
          THEN Install(postMessage(saveSessionMetadata(w1, w1.session[m], now), m,
                         [type |-> "profile-updated", session |-> Absent]))
          ELSE Install(World)
  /\ UNCHANGED <<now, registryVars, authStatus, openaiResult, resumeVars, debounce, clients, lastSessionRotation, issued, location, login>>

\* ---- the registry by configuration: lines 41-43 and 97-169 ----
\* resolveClientId(baseClientId) of utils/environment.js
resolveClientId(baseClientId, dev) ==
  IF baseClientId = <<>> THEN baseClientId
  ELSE IF baseClientId[Len(baseClientId)] \in {"_dev", "_prod"} THEN baseClientId
  ELSE Append(baseClientId, IF dev THEN "_dev" ELSE "_prod")

\* resolveAuthUrl(customAuthUrl) of utils/environment.js
resolveAuthUrl(customAuthUrl, dev) ==
  IF customAuthUrl # <<>> THEN customAuthUrl
  ELSE IF dev THEN <<"https://auth", "-", "dev.opencard.ai">>
  ELSE <<"https://auth.opencard.ai">>

\* resolvedConfig of the constructor, as far as the key depends on it
ResolvedConfig(config, dev) ==
  [authUrl |-> resolveAuthUrl(config.authUrl, dev),
   clientId |-> resolveClientId(config.clientId, dev)]

\* `${config.authUrl || 'default'}-${config.clientId || 'default'}`
getInstanceKey(config) ==
  (IF config.authUrl = <<>> THEN <<"default">> ELSE config.authUrl)
    \o <<"-">>
    \o (IF config.clientId = <<>> THEN <<"default">> ELSE config.clientId)

\* the app is opened on a development host or on a production host
OpenOnHost(dev) ==
  /\ NoneDone
  /\ isDev' = dev
  /\ FreshPage(CleanUrl("/"))
  /\ authSuccess' = FALSE
  /\ UNCHANGED <<now, sessionMeta, pkce, issued, pending>>

\* new OpenCardClient(config): the instance the registry holds under the key of
\* the resolved configuration, or else a new instance with a Session of its
\* own, registered under that key
NewClient(config) ==
  /\ NoneDone
  /\ LET resolved == ResolvedConfig(config, isDev)
         instanceKey == getInstanceKey(resolved)
         existing == {i \in registry : i.key = instanceKey}
         created == [key |-> instanceKey, config |-> resolved,
                     id |-> Cardinality(registry) + 1,
                     session |-> InitialSession]
     IN IF existing # {}
          THEN /\ constructed' =
                    [request |-> config, instance |-> CHOOSE i \in existing : TRUE]
               /\ UNCHANGED registry
          ELSE /\ Cardinality(registry) < MaxInstances
               /\ registry' = registry \cup {created}
               /\ constructed' = [request |-> config, instance |-> created]
  /\ UNCHANGED <<now, isDev, authStatus, openaiResult, resumeVars, debounce, clients, session,
                 hasSessionMetadata, refreshInProgress, lastSessionRotation, globalSession,
                 refreshLock, waiters, sessionMeta, pkce, inbox, calls, issued,
                 pageVars>>

\* ---- specifications ----
\* what the token endpoint can do with the refresh request of a call
EndpointSteps ==
  \/ \E c \in Callers : FetchThrows(c)
  \/ \E c \in Callers, st \in Statuses \ {200}, k \in BodyKinds, r \in BOOLEAN :
       ErrorResponse(c, st, k, r)
  \/ \E c \in Callers, e \in ExpiresInChoices, r \in BOOLEAN :
       TokenResponse(c, e, TRUE, r)

\* a page with one manager, the clock and every answer of the token endpoint
Next ==
  \/ Tick
  \/ Construct("k1")
  \/ CallEnsureFresh("k1")
  \/ \E c \in Callers : PollTimer(c)
  \/ \E c \in Callers : RetryTimer(c)
  \/ Forget
  \/ SignOut("k1")
  \/ EndpointSteps

Spec == Init /\ [][Next]_vars

\* a page with managers for two keys; the token endpoint answers at once: with
\* tokens that live longer than five minutes, with 401 or with 500
NextTwo ==
  \/ \E m \in Managers : Construct(m)
  \/ \E m \in Managers : CallEnsureFresh(m)
  \/ \E c \in Callers : PollTimer(c)
  \/ Forget
  \/ \E m \in Managers : Deliver(m)
  \/ \E m \in Managers : SignOut(m)
  \/ \E c \in Callers, st \in {401, 500} : ErrorResponse(c, st, "neutral", FALSE)
  \/ \E c \in Callers, e \in {x \in ExpiresInChoices : x > FiveMinutes} :
       TokenResponse(c, e, TRUE, FALSE)

SpecTwo == Init /\ [][NextTwo]_vars

\* a page with one manager that logs in through the authorization server
NextLogin ==
  \/ Tick
  \/ Construct("k1")
  \/ \E url \in Urls : LoadPage(url)
  \/ RedirectToLogin("k1")
  \/ \E st \in States : ChallengeReady(st)
  \/ HandleRedirectCallback("k1")
  \/ \E e \in ExpiresInChoices : ExchangeSucceeds(e)
  \/ ExchangeFails
  \/ \E ok \in BOOLEAN, u \in Users : ProfileResponse(ok, u)
  \/ SignOut("k1")

SpecLogin == Init /\ [][NextLogin]_vars

\* a page with one manager that is reloaded, refreshes and is asked for its
\* status while the clock runs
NextReload ==
  \/ Tick
  \/ Construct("k1")
  \/ LoadPage(CleanUrl("/"))
  \/ CallEnsureFresh("k1")
  \/ Forget
  \/ CheckAuthStatus("k1")
  \/ SignOut("k1")
  \/ \E c \in Callers : ErrorResponse(c, 401, "neutral", FALSE)
  \/ \E c \in Callers, e \in ExpiresInChoices : TokenResponse(c, e, TRUE, FALSE)

SpecReload == Init /\ [][NextReload]_vars

\* a page with managers for two keys, one of which logs in, through the whole
\* life of a session: login, profile fetch, reload, refresh, recovery, sign-out
NextSession ==
  \/ \E m \in Managers : Construct(m)
  \/ LoadPage(CleanUrl("/"))
  \/ LoadPage([path |-> "/", hash |-> [code |-> "code", state |-> "s1", error |-> Null],
               query |-> NoParams])
  \/ RedirectToLogin("k1")
  \/ ChallengeReady("s1")
  \/ HandleRedirectCallback("k1")
  \/ \E e \in ExpiresInChoices : ExchangeSucceeds(e)
  \/ ExchangeFails
  \/ \E u \in Users : ProfileResponse(TRUE, u)
  \/ CallEnsureFresh("k1")
  \/ Forget
  \/ \E c \in Callers : ErrorResponse(c, 401, "neutral", FALSE)
  \/ \E c \in Callers, e \in ExpiresInChoices : TokenResponse(c, e, TRUE, FALSE)
  \/ \E m \in Managers : Deliver(m)
  \/ \E m \in Managers : SignOut(m)

SpecSession == Init /\ [][NextSession]_vars

\* a login whose token response may name the user, the profile fetch that
\* follows it, and the refreshes and status checks after that
NextProfile ==
  \/ Tick
  \/ Construct("k1")
  \/ LoadPage([path |-> "/", hash |-> [code |-> "code", state |-> "s1", error |-> Null],
               query |-> NoParams])
  \/ RedirectToLogin("k1")
  \/ ChallengeReady("s1")
  \/ HandleRedirectCallback("k1")
  \/ \E e \in ExpiresInChoices : ExchangeSucceeds(e)
  \/ \E e \in ExpiresInChoices, u \in Users : ExchangeSucceedsWithUser(e, u)
  \/ \E ok \in BOOLEAN, u \in Users : ProfileResponse(ok, u)
  \/ CallEnsureFresh("k1")
  \/ Forget
  \/ \E c \in Callers, e \in ExpiresInChoices : TokenResponse(c, e, TRUE, FALSE)
  \/ CheckAuthStatus("k1")

SpecProfile == Init /\ [][NextProfile]_vars

\* sign-out and logout messages while refreshes are answered with tokens
NextSignOut ==
  \/ \E m \in Managers : Construct(m)
  \/ CallEnsureFresh("k1")
  \/ Forget
  \/ \E c \in Callers, e \in ExpiresInChoices : TokenResponse(c, e, TRUE, FALSE)
  \/ \E m \in Managers : SignOut(m)
  \/ Deliver("k1")

SpecSignOut == Init /\ [][NextSignOut]_vars

\* a page with one manager among other tabs of the origin, which refresh, log
\* out and see their session cookie rotate
NextTabs ==
  \/ Construct("k1")
  \/ CallEnsureFresh("k1")
  \/ Forget
  \/ \E c \in Callers, e \in ExpiresInChoices : TokenResponse(c, e, TRUE, FALSE)
  \/ \E c \in Callers, st \in {401, 500} : ErrorResponse(c, st, "neutral", FALSE)
  \/ \E type \in MessageTypes, e \in ExpiresInChoices : TabMessage(type, e)
  \/ Deliver("k1")
  \/ DebounceTimer("k1")

SpecTabs == Init /\ [][NextTabs]_vars

\* ---- the OpenCard wrapper: the request saved across a login ----
\* a faulty variant of _retrieveRequest(): a stale envelope is not returned
\* but stays in storage
retrieveRequestKeepingStale(p, t) ==
  IF p = Absent \/ p.version # STATE_VERSION \/ t > p.expiresAt
    THEN [request |-> Null, pending |-> p]
    ELSE [request |-> p.request, pending |-> p]

\* _retrieveRequest() with _clearPendingRequest(): what it returns and what
\* it leaves in sessionStorage
retrieveRequest(p, t) ==
  IF p = Absent THEN [request |-> Null, pending |-> Absent]
  ELSE IF p.version # STATE_VERSION THEN [request |-> Null, pending |-> Absent]
  ELSE IF t > p.expiresAt THEN [request |-> Null, pending |-> Absent]
  ELSE [request |-> p.request, pending |-> p]

\* the app is opened, or the login page sends the browser back to return_to,
\* whose URL carries opencard_auth_success
OpenApp(flag) ==
  /\ FreshPage(CleanUrl("/"))
  /\ authSuccess' = flag
  /\ UNCHANGED <<now, isDev, sessionMeta, pkce, issued, pending>>

\* new OpenCard(): no callbacks yet, _checkAuthResume() deferred by setTimeout
NewOpenCard ==
  /\ location.path \in Paths
  /\ resumeCheck = "none"
  /\ resumeCheck' = "due"
  /\ authCallbacks' = <<>>
  /\ UNCHANGED <<now, clientVars, location, pending, authSuccess, delivered, retrieved>>

\* opencard.onAuthResume(cb)
OnAuthResume(cb) ==
  /\ resumeCheck # "none"
  /\ Len(authCallbacks) < MaxRegistrations
  /\ authCallbacks' = Append(authCallbacks, cb)
  /\ UNCHANGED <<now, clientVars, location, pending, authSuccess, resumeCheck,
                 delivered, retrieved>>

\* opencard._retrieveRequest() by itself
RetrieveRequest ==
  /\ resumeCheck # "none"
  /\ LET r == retrieveRequest(pending, now)
     IN /\ retrieved' = [envelope |-> pending, at |-> now, request |-> r.request]
        /\ pending' = r.pending
  /\ UNCHANGED <<now, clientVars, location, authSuccess, authCallbacks,
                 resumeCheck, delivered>>

\* a faulty variant of _checkAuthResume(): the URL is not looked at
CheckAuthResumeWithoutFlag ==
  /\ resumeCheck = "due"
  /\ resumeCheck' = "ran"
  /\ LET r == retrieveRequest(pending, now)
     IN /\ retrieved' = [envelope |-> pending, at |-> now, request |-> r.request]
        /\ IF r.request = Null
             THEN pending' = r.pending /\ UNCHANGED <<authSuccess, delivered>>
             ELSE /\ authSuccess' = FALSE
                  /\ pending' = Absent
                  /\ delivered' = [cb \in ResumeCallbacks |->
                       delivered[cb] \o
                         SelectSeq([i \in DOMAIN authCallbacks |->
                                      IF authCallbacks[i] = cb THEN r.request ELSE Null],
                                   LAMBDA x : x # Null)]
  /\ UNCHANGED <<now, clientVars, location, authCallbacks>>

\* the timer of the constructor fires: _checkAuthResume()
CheckAuthResume ==
  /\ resumeCheck = "due"
  /\ resumeCheck' = "ran"
  /\ IF ~authSuccess
       THEN UNCHANGED <<pending, authSuccess, delivered, retrieved>>
       ELSE LET r == retrieveRequest(pending, now)
            IN /\ retrieved' = [envelope |-> pending, at |-> now, request |-> r.request]
               /\ IF r.request = Null
                    THEN pending' = r.pending /\ UNCHANGED <<authSuccess, delivered>>
                    ELSE /\ authSuccess' = FALSE
                         /\ pending' = Absent
                         /\ delivered' = [cb \in ResumeCallbacks |->
                              delivered[cb] \o
                                SelectSeq([i \in DOMAIN authCallbacks |->
                                             IF authCallbacks[i] = cb THEN r.request ELSE Null],
                                          LAMBDA x : x # Null)]
  /\ UNCHANGED <<now, clientVars, location, authCallbacks>>

\* opencard.request(options) is answered 401 with a loginUrl: the request is
\* saved and the browser leaves for the login page
RequestUnauthorized(r) ==
  /\ resumeCheck # "none"
  /\ pending' = [version |-> STATE_VERSION, expiresAt |-> now + EXPIRY_MS,
                 request |-> r]
  /\ FreshPage(AtAuthServer)
  /\ authSuccess' = FALSE
  /\ UNCHANGED <<now, isDev, sessionMeta, pkce, issued>>

\* what sessionStorage can hold of a request saved earlier: by this version
\* of the SDK or by another one, running out at one of the model's times
SavedEnvelopes ==
  {[version |-> v, expiresAt |-> x, request |-> "r1"] :
     v \in {STATE_VERSION, STATE_VERSION + 1}, x \in 1..MaxTime}

\* a tab in which a request may have been saved before
InitResume ==
  /\ now = 1
  /\ clients = {}
  /\ session = [m \in Managers |-> EmptySession]
  /\ hasSessionMetadata = [m \in Managers |-> FALSE]
  /\ refreshInProgress = [m \in Managers |-> FALSE]
  /\ lastSessionRotation = [m \in Managers |-> None]
  /\ globalSession = Absent
  /\ refreshLock = FreeLock
  /\ waiters = [c \in Callers |-> <<>>]
  /\ sessionMeta = Absent
  /\ pkce = NoPKCE
  /\ location = CleanUrl("/")
  /\ inbox = [m \in Managers |-> <<>>]
  /\ calls = [c \in Callers |-> IdleCall]
  /\ issued = 0
  /\ callback = IdleCallback
  /\ login = IdleLogin
  /\ isDev = FALSE
  /\ registry = {}
  /\ constructed = NotConstructed
  /\ authStatus = NotChecked
  /\ debounce = [m \in Managers |-> 0]
  /\ openaiResult = NoClient
  /\ pending \in {Absent} \cup SavedEnvelopes
  /\ authSuccess \in BOOLEAN
  /\ authCallbacks = <<>>
  /\ resumeCheck = "none"
  /\ delivered = [cb \in ResumeCallbacks |-> <<>>]
  /\ retrieved = NotRetrieved

NextResume ==
  \/ Tick
  \/ \E flag \in BOOLEAN : OpenApp(flag)
  \/ NewOpenCard
  \/ \E cb \in ResumeCallbacks : OnAuthResume(cb)
  \/ RetrieveRequest
  \/ CheckAuthResume
  \/ \E r \in Requests : RequestUnauthorized(r)

SpecResume == InitResume /\ [][NextResume]_vars

\* the Sessions a refresh at time 0 can have installed: an access token of
\* either lifetime, with or without an ephemeral key, the key's lifetime as
\* the server gave it (2) or the default
EarlierSessions ==
  {[accessToken |-> 1, accessExpires |-> e, ephemeralKey |-> k,
    ephemeralExpires |-> q, user |-> Null] :
      e \in ExpiresInChoices, k \in {None, 1}, q \in {2, EphemeralDefault}}

\* a page on which manager k2 refreshed at time 0: its Session is the global
\* session, the metadata is in storage, and k1 is not constructed yet
InitOpenAI ==
  /\ now = 1
  /\ clients = {"k2"}
  /\ globalSession \in EarlierSessions
  /\ session = [m \in Managers |-> IF m = "k2" THEN globalSession ELSE EmptySession]
  /\ hasSessionMetadata = [m \in Managers |-> FALSE]
  /\ refreshInProgress = [m \in Managers |-> FALSE]
  /\ lastSessionRotation = [m \in Managers |-> None]
  /\ refreshLock = FreeLock
  /\ waiters = [c \in Callers |-> <<>>]
  /\ sessionMeta = saveSessionMetadata([sessionMeta |-> Absent], globalSession, 0).sessionMeta
  /\ pkce = NoPKCE
  /\ location = CleanUrl("/")
  /\ inbox = [m \in Managers |-> <<>>]
  /\ calls = [c \in Callers |-> IdleCall]
  /\ issued = 1
  /\ callback = IdleCallback
  /\ login = IdleLogin
  /\ isDev = FALSE
  /\ registry = {}
  /\ constructed = NotConstructed
  /\ authStatus = NotChecked
  /\ debounce = [m \in Managers |-> 0]
  /\ openaiResult = NoClient
  /\ pending = Absent
  /\ authSuccess = FALSE
  /\ authCallbacks = <<>>
  /\ resumeCheck = "none"
  /\ delivered = [cb \in ResumeCallbacks |-> <<>>]
  /\ retrieved = NotRetrieved

\* an app that asks for OpenAI clients while time passes and tokens change
NextOpenAI ==
  \/ Tick
  \/ Construct("k1")
  \/ CreateOpenAIClient("k1")
  \/ CallEnsureFresh("k1")
  \/ Forget
  \/ \E c \in Callers, e \in ExpiresInChoices, k \in BOOLEAN : TokenResponse(c, e, k, FALSE)
  \/ \E c \in Callers : ErrorResponse(c, 401, "neutral", FALSE)
  \/ SignOut("k1")

SpecOpenAI == InitOpenAI /\ [][NextOpenAI]_vars

\* a login in a browser whose storage may refuse writes
NextStorage ==
  \/ Tick
  \/ Construct("k1")
  \/ \E u \in {CleanUrl("/")} \cup
                {[path |-> "/", hash |-> [code |-> "code", state |-> st, error |-> Null],
                  query |-> NoParams] : st \in {"s1", Null}} : LoadPage(u)
  \/ RedirectToLogin("k1")
  \/ ChallengeReady("s1")
  \/ ChallengeReadyStorageThrows("s1")
  \/ HandleRedirectCallback("k1")
  \/ \E e \in ExpiresInChoices : ExchangeSucceeds(e)
  \/ ExchangeFails
  \/ SignOut("k1")

SpecStorage == Init /\ [][NextStorage]_vars

\* a page whose app signs in through authenticate() while it also calls
\* ensureFresh() itself
NextAuthenticate ==
  \/ Construct("k1")
  \/ LoadPage([path |-> "/", hash |-> [code |-> "code", state |-> "s1", error |-> Null],
               query |-> NoParams])
  \/ \E skip \in BOOLEAN : Authenticate("k1", skip)
  \/ EnsureAuthenticatedCatch
  \/ ChallengeReady("s1")
  \/ \E e \in ExpiresInChoices : ExchangeSucceeds(e)
  \/ ExchangeFails
  \/ CallEnsureFresh("k1")
  \/ \E c \in Callers : PollTimer(c)
  \/ Forget
  \/ \E c \in Callers, st \in {401, 500} : ErrorResponse(c, st, "neutral", FALSE)
  \/ \E c \in Callers, e \in ExpiresInChoices : TokenResponse(c, e, TRUE, FALSE)

SpecAuthenticate == Init /\ [][NextAuthenticate]_vars

\* a page on which managers are constructed for all kinds of configurations
NextRegistry ==
  \/ \E dev \in BOOLEAN : OpenOnHost(dev)
  \/ \E config \in Configs : NewClient(config)

SpecRegistry == Init /\ [][NextRegistry]_vars

\* ---- the claims ----
\* the step in which call c is made, and the step in which its refresh settles
Started(c) == calls[c].pc = "idle" /\ calls'[c].pc # "idle"
Settled(c) == calls[c].pc \in RefreshPhases /\ calls'[c].pc = "done"
\* the calls that await the refresh promise of call c
AwaitingOn(c) == {d \in Callers : calls[d].pc = "awaitShared" /\ calls[d].awaiting = c}
SameToken(a, b) ==
  a.accessToken = b.accessToken /\ a.accessExpires = b.accessExpires
NoCredentials(s) ==
  /\ s.accessToken = None /\ s.accessExpires = None
  /\ s.ephemeralKey = None /\ s.ephemeralExpires = None

\* C1, as stated: when a refresh that other calls wait for settles, one request
\* has been sent, no waiting call sends another, and every waiting call that
\* has returned holds the accessToken and accessExpires of the refresh's
\* result, whether the refresh succeeded or failed
C1_ExactlyOneRequest ==
  [][\A c \in Callers : (Settled(c) /\ AwaitingOn(c) # {}) =>
        /\ calls'[c].reqs = 1
        /\ \A d \in AwaitingOn(c) :
              /\ calls'[d].reqs = 0
              /\ calls'[d].pc = "done"
              /\ SameToken(calls'[d].ret, calls'[c].ret)]_vars

\* C1, as the code has it: a call made while the lock is held awaits the shared
\* promise and sends nothing; the refresh sends one request or two; if it
\* resolves, every call awaiting it resolves without a request of its own and
\* with the accessToken and accessExpires of its result; if it rejects, every
\* call awaiting it goes on by itself
C1_WaitersShareTheRefresh ==
  [][\A c \in Callers :
        /\ (Started(c) /\ refreshLock.isLocked
              /\ refreshLock.currentRefreshPromise # Null) =>
              /\ calls'[c].pc = "awaitShared"
              /\ calls'[c].awaiting = refreshLock.currentRefreshPromise
              /\ calls'[c].reqs = 0
        /\ Settled(c) =>
              /\ calls'[c].reqs \in {1, 2}
              /\ \A d \in AwaitingOn(c) :
                    IF calls'[c].outcome = "resolved"
                      THEN /\ calls'[d].pc = "done"
                           /\ calls'[d].outcome = "resolved"
                           /\ calls'[d].reqs = 0
                           /\ calls'[d].ret.accessToken # None
                           /\ SameToken(calls'[d].ret, calls'[c].ret)
                      ELSE /\ calls'[d].pc \in {"fetch", "poll", "done"}
                           /\ calls'[d].awaiting = Null]_vars

\* a refresh that needed its retry has resolved, and a call that awaited it has
\* resolved with the same token without a request of its own
C1_Witness ==
  \E c, d \in Callers :
    /\ c # d /\ calls[c].mgr = calls[d].mgr
    /\ calls[c].pc = "done" /\ calls[c].outcome = "resolved" /\ calls[c].reqs = 2
    /\ calls[d].pc = "done" /\ calls[d].outcome = "resolved" /\ calls[d].reqs = 0
    /\ calls[c].ret.accessToken # None
    /\ SameToken(calls[d].ret, calls[c].ret)

\* C2: at most one refresh request is in flight for one key
C2_OneRequestPerKey ==
  \A m \in Managers :
    Cardinality({c \in Callers : calls[c].mgr = m /\ calls[c].pc = "fetch"}) <= 1

\* C3: the lock is held exactly while its shared promise is there, and only
\* while the refresh that took it has not settled
C3_LockNeverLeftHeld ==
  /\ refreshLock.isLocked <=> refreshLock.currentRefreshPromise # Null
  /\ refreshLock.isLocked =>
       calls[refreshLock.currentRefreshPromise].pc \in RefreshPhases

\* a refresh has been rejected after its retry and the lock is free
C3_Witness ==
  /\ refreshLock = FreeLock
  /\ \E c \in Callers :
       /\ calls[c].pc = "done" /\ calls[c].outcome = "rejected"
       /\ calls[c].reqs = 2

\* C4: a call made on a Session whose token has more than five minutes left,
\* once it has returned, has sent no request and returns the Session as it was
C4_FreshSessionReturned ==
  [][\A c \in Callers :
        (/\ Started(c)
         /\ SkipsRefresh(session[calls'[c].mgr], now)
         /\ calls'[c].pc = "done") =>
           /\ calls'[c].reqs = 0
           /\ calls'[c].ret = session[calls'[c].mgr]]_vars

\* C5: a call made on a Session whose token is there with five minutes or less
\* left, while nothing is being refreshed, takes the lock and sends a request
C5_NearExpiryRefreshes ==
  [][\A c \in Callers :
        LET m == calls'[c].mgr IN
        (/\ Started(c)
         /\ HasValidToken(session[m], now)
         /\ session[m].accessExpires - now <= FiveMinutes
         /\ ~refreshLock.isLocked
         /\ ~refreshInProgress[m]
         /\ \A d \in Callers : calls[d].pc \notin RefreshPhases) =>
           /\ calls'[c].pc = "fetch"
           /\ calls'[c].reqs = 1
           /\ refreshLock'.isLocked]_vars

\* C6: a refresh whose last answer was 401 or 403 is rejected as an
\* authentication failure and leaves the Session without credentials, the user
\* kept
C6_AuthFailureClears ==
  \A c \in Callers :
    (calls[c].pc = "done" /\ calls[c].lastStatus \in {401, 403}) =>
      /\ calls[c].outcome = "rejected"
      /\ calls[c].authErr
      /\ NoCredentials(session[calls[c].mgr])
      /\ calls[c].userPre # Null => session[calls[c].mgr].user = calls[c].userPre

\* C7: a first request that fails on the network is followed by the wait and a
\* second request, neither step touching the Session, the global session or the
\* metadata; if the second request is answered with tokens, the call resolves
\* with the new Session after exactly two requests
C7_TransientRetry ==
  [][\A c \in Callers :
        LET m == calls[c].mgr IN
        /\ (/\ calls[c].pc = "fetch" /\ calls[c].attempt = 1
            /\ calls'[c] # calls[c] /\ calls'[c].first = "net") =>
              /\ calls'[c].pc = "retryWait"
              /\ calls'[c].reqs = 1
              /\ session' = session /\ globalSession' = globalSession
              /\ sessionMeta' = sessionMeta
        /\ (calls[c].pc = "retryWait" /\ calls'[c].pc = "fetch") =>
              /\ calls'[c].reqs = 2
              /\ session' = session /\ globalSession' = globalSession
              /\ sessionMeta' = sessionMeta
        /\ (Settled(c) /\ calls'[c].first = "net" /\ calls'[c].lastStatus = 200) =>
              /\ calls'[c].reqs = 2
              /\ calls'[c].outcome = "resolved"
              /\ calls'[c].ret = session'[m]
              /\ calls'[c].ret.accessToken = issued'
              /\ calls'[c].ret.accessExpires > now]_vars

\* the first request failed on the network, the second brought tokens
C7_Witness ==
  \E c \in Callers :
    /\ calls[c].pc = "done" /\ calls[c].first = "net" /\ calls[c].lastStatus = 200
    /\ calls[c].reqs = 2 /\ calls[c].outcome = "resolved"
    /\ session[calls[c].mgr].accessToken = issued

\* C8: a refresh rejected for something else than an authentication failure has
\* sent two requests and leaves the Session, the global session and the
\* metadata as they were
C8_NonAuthFailureRetried ==
  [][\A c \in Callers :
        (Settled(c) /\ calls'[c].outcome = "rejected" /\ ~calls'[c].authErr) =>
           /\ calls'[c].reqs = 2
           /\ session' = session /\ globalSession' = globalSession
           /\ sessionMeta' = sessionMeta]_vars

\* C9: a refresh sends at most two requests; a first attempt that failed as an
\* authentication failure is repeated only if this manager recorded a rotation
\* less than a minute ago, and is otherwise surfaced as an authentication
\* failure after that one request
C9_BoundedRetry ==
  [][\A c \in Callers :
        LET m == calls[c].mgr
            rot == lastSessionRotation'[m]
            recent == rot # None /\ now - rot < 1
            authFirst == /\ calls[c].pc = "fetch" /\ calls[c].attempt = 1
                         /\ calls'[c] # calls[c] /\ calls'[c].first = "auth"
        IN /\ calls'[c].reqs <= 2
           /\ (authFirst /\ calls'[c].pc = "retryWait") => recent
           /\ (authFirst /\ ~recent) =>
                 /\ calls'[c].pc = "done"
                 /\ calls'[c].outcome = "rejected"
                 /\ calls'[c].authErr
                 /\ calls'[c].reqs = 1]_vars

\* an authentication failure surfaced after one request although this manager
\* had recorded a rotation, more than a minute before
C9_Witness ==
  \E c \in Callers :
    /\ calls[c].pc = "done" /\ calls[c].first = "auth" /\ calls[c].reqs = 1
    /\ calls[c].outcome = "rejected" /\ calls[c].authErr
    /\ lastSessionRotation[calls[c].mgr] # None
    /\ now - lastSessionRotation[calls[c].mgr] >= 1

\* C10: a callback whose state is not the state redirectToLogin() stored ends
\* with the CSRF error, sends no token request, installs no Session and leaves
\* none of the three PKCE keys
C10_CsrfLeavesNothing ==
  [][(/\ pkce.state # Null
      /\ callback.outcome # "csrf" /\ callback'.outcome = "csrf") =>
        /\ callback'.pc = "idle"
        /\ issued' = issued
        /\ session' = session /\ globalSession' = globalSession
        /\ pkce' = NoPKCE]_vars

\* the step in which a handleRedirectCallback() invocation ends with outcome o
Ended(o) == callback.outcome # o /\ callback'.outcome = o
\* the step in which an invocation ends before its first await
EndsAtOnce ==
  /\ callback.pc = "idle" /\ callback'.pc = "idle"
  /\ callback'.outcome # Null /\ callback'.outcome # callback.outcome
\* neither the fragment nor the query of the URL carries the parameter
NoCode(url) == url.hash.code = Null /\ url.query.code = Null
NoError(url) == url.hash.error = Null /\ url.query.error = Null
\* the page, the storage, the Sessions, the channel and the token endpoint
\* are as they were
NothingChanged ==
  UNCHANGED <<pkce, sessionMeta, session, hasSessionMetadata, globalSession,
              location, inbox, issued, refreshLock, calls>>

\* C11, as stated: handleRedirectCallback() on a URL that carries no code, in
\* the fragment or in the query, returns absent and changes nothing
C11_NoCodeReturnsAbsent ==
  [][(EndsAtOnce /\ NoCode(location)) =>
        callback'.outcome = "none" /\ NothingChanged]_vars

\* C11, amended: on a URL that carries neither a code nor an error,
\* handleRedirectCallback() returns absent; on a URL that carries an error and
\* no code it throws the OAuth error; in both cases no storage key, no Session,
\* not the global session and not the URL changes, and no request and no
\* broadcast is sent
C11_NoCodeChangesNothing ==
  [][(EndsAtOnce /\ NoCode(location)) =>
        /\ callback'.outcome = IF NoError(location) THEN "none" ELSE "oauthError"
        /\ NothingChanged]_vars

\* handleRedirectCallback() has returned absent on a page whose storage holds
\* the PKCE keys of a login and the metadata of a session
C11_Witness ==
  /\ callback.outcome = "none" /\ NoCode(location) /\ NoError(location)
  /\ pkce.state # Null /\ pkce.verifier # Null /\ sessionMeta # Absent

\* C12: every handleRedirectCallback() invocation that handles a return from
\* the authorization server (the URL carried a code or an error) ends, on
\* success and on every error, with none of the three PKCE keys stored
C12_PkceDeletedOnEveryEnd ==
  [][(\E o \in {"oauthError", "csrf", "noVerifier", "exchangeFailed", "session"} :
         Ended(o)) => pkce' = NoPKCE]_vars

\* lines 717-722: two URLs are the same page when they differ in the fragment
\* at most
SamePage(a, b) == a.path = b.path /\ a.query = b.query

\* C13: a successful exchange navigates to the return URL redirectToLogin()
\* stored if that URL is not the page the browser is on (the fragment left
\* aside), and does not navigate if it is
C13_ReturnsToOriginalPage ==
  [][(Ended("session") /\ pkce.returnUrl # Absent) =>
        location' = IF SamePage(pkce.returnUrl, location)
                      THEN location ELSE pkce.returnUrl]_vars

\* C14: a construction returns the instance made for the same (authUrl,
\* clientId) if there is one, and never an instance made for another authUrl
\* or another clientId: the instance it returns has the authUrl and the
\* clientId the construction asked for, as the environment resolves them
C14_InstancePerConfiguration ==
  constructed.instance # Absent =>
    constructed.instance.config = ResolvedConfig(constructed.request, isDev)

\* what checkAuthStatus() of manager m would return now, and after this step
Status(m) ==
  checkAuthStatus(m, globalSession, hasSessionMetadata[m], session[m], now).result
StatusAfter(m) ==
  checkAuthStatus(m, globalSession', hasSessionMetadata'[m], session'[m], now').result
\* authenticated on the word of the metadata: tokens have to be fetched
MetadataOnly(m) == AuthResult(m, TRUE, TRUE, FALSE)
\* the step in which manager m is constructed on a page that was just loaded
ConstructedAfterReload(m) ==
  m \notin clients /\ m \in clients' /\ globalSession = Absent
\* the step in which a refresh of manager m succeeds
RefreshSucceeded(m) ==
  \E c \in Callers :
    Settled(c) /\ calls[c].mgr = m /\ calls'[c].outcome = "resolved"
\* the step in which the page is given a Session with tokens: a refresh of one
\* of its managers succeeds, a login completes, or the listener of a manager
\* handles the Session another tab or manager announced
TokensArrive ==
  \/ \E m \in Managers : RefreshSucceeded(m)
  \/ callback.pc = "exchange" /\ callback'.outcome = "session"
  \/ \E r \in clients :
       /\ inbox[r] # <<>> /\ Head(inbox[r]).type = "session-updated"
       /\ inbox'[r] = Tail(inbox[r])

\* C15, as stated: whenever metadata of a successful refresh is in storage, a
\* manager constructed after a reload reports isAuthenticated true,
\* needsRefresh true, hasTokens false
C15_ReloadReportsMetadata ==
  [][\A m \in Managers :
       (ConstructedAfterReload(m) /\ sessionMeta # Absent) =>
          StatusAfter(m) = MetadataOnly(m)]_vars

\* C15, amended: a manager constructed after a reload while the accessExpires
\* of the stored metadata is still in the future reports isAuthenticated true,
\* needsRefresh true, hasTokens false; it goes on reporting that as long as
\* the page lives, the metadata is not removed and the page is given no
\* Session with tokens; when a refresh of the manager succeeds it reports
\* hasTokens true
C15_ReloadRoundTrip ==
  [][\A m \in Managers :
       /\ (ConstructedAfterReload(m) /\ sessionMeta # Absent
              /\ sessionMeta.accessExpires > now) =>
             StatusAfter(m) = MetadataOnly(m)
       /\ (m \in clients /\ Status(m) = MetadataOnly(m) /\ m \in clients'
              /\ sessionMeta' # Absent /\ ~TokensArrive) =>
             StatusAfter(m) = MetadataOnly(m)
       /\ (Status(m) = MetadataOnly(m) /\ RefreshSucceeded(m)) =>
             StatusAfter(m).hasTokens]_vars

\* a manager that was constructed from stored metadata has been told by
\* checkAuthStatus() that tokens are missing, has refreshed, and has then been
\* told that it has tokens
C15_Witness ==
  /\ authStatus.mgr = "k1" /\ authStatus.hasTokens
  /\ hasSessionMetadata["k1"]
  /\ session["k1"].accessToken # None

\* C16: checkAuthStatus() decides at the time of the call: (1) a global
\* session with an unexpired token is copied into the manager and gives
\* isAuthenticated and hasTokens true; (2) else metadata whose access expiry is
\* still in the future gives isAuthenticated true, needsRefresh true,
\* hasTokens false; (3) else isAuthenticated and hasTokens are true exactly
\* when the manager's own Session holds an unexpired token
C16_StatusPrecedence ==
  \A m \in clients :
    LET r == checkAuthStatus(m, globalSession, hasSessionMetadata[m],
                             session[m], now)
        fresh == globalSession # Absent /\ HasValidToken(globalSession, now)
        trusted == hasSessionMetadata[m] /\ session[m].accessExpires > now
        own == HasValidToken(session[m], now)
    IN /\ fresh =>
            /\ r.session = globalSession
            /\ r.result.isAuthenticated /\ r.result.hasTokens
       /\ (~fresh /\ trusted) => r.result = MetadataOnly(m)
       /\ (~fresh /\ ~trusted) =>
            /\ r.result.isAuthenticated = own
            /\ r.result.hasTokens = own

\* C17: whatever the manager has written to storage, the metadata consists of
\* accessExpires, ephemeralExpires, user and savedAt and of nothing else, and
\* sessionStorage of the verifier, the state and the return URL: no access
\* token and no ephemeral key is stored
C17_NoTokenInStorage ==
  /\ sessionMeta # Absent =>
       DOMAIN sessionMeta = {"accessExpires", "ephemeralExpires", "user", "savedAt"}
  /\ DOMAIN pkce = {"verifier", "state", "returnUrl"}

\* the manager holds an access token and an ephemeral key and has written the
\* metadata of this Session, with the user of the profile fetch
C17_Witness ==
  /\ session["k1"].accessToken # None /\ session["k1"].ephemeralKey # None
  /\ sessionMeta # Absent /\ sessionMeta.savedAt > 0
  /\ sessionMeta.accessExpires = session["k1"].accessExpires
  /\ sessionMeta.user # Null

\* the message signOut() posts
LogoutMessage == [type |-> "logout", session |-> Absent]

\* C18: the step in which a manager signs out, seen by the other manager of
\* the page as a logout message, leaves the Session of the manager without
\* token, key, expiries and user, no global session, no metadata and none of
\* the three PKCE keys, and puts exactly one logout message on the channel
C18_SignOutLeavesNothing ==
  [][\A m, r \in Managers :
       (/\ m \in clients /\ r # m
        /\ Len(inbox'[r]) > Len(inbox[r])
        /\ inbox'[r][Len(inbox'[r])].type = "logout") =>
          /\ session'[m] = EmptySession
          /\ globalSession' = Absent
          /\ sessionMeta' = Absent
          /\ pkce' = NoPKCE
          /\ inbox'[r] = Append(inbox[r], LogoutMessage)]_vars

\* k1 has signed out: its Session is empty, nothing is stored, and k2, which
\* still holds the Session they shared, has the one logout message to handle
C18_Witness ==
  /\ clients = Managers
  /\ session["k1"] = EmptySession /\ globalSession = Absent
  /\ sessionMeta = Absent /\ pkce = NoPKCE
  /\ inbox["k2"] = <<LogoutMessage>>
  /\ session["k2"].accessToken # None

\* C19: a Session with tokens, in a manager or in the registry, is replaced
\* by another Session with tokens (one another tab announces, or the one a
\* refresh response brings) only if the accessExpires of the new one is not
\* older
C19_OlderSessionNeverReplaces ==
  [][/\ \A m \in clients :
          (/\ m \in clients' /\ session'[m] # session[m]
           /\ session[m].accessToken # None /\ session'[m].accessToken # None) =>
             session'[m].accessExpires >= session[m].accessExpires
     /\ (/\ clients' # {} /\ globalSession # Absent /\ globalSession' # Absent
         /\ globalSession' # globalSession
         /\ globalSession.accessToken # None /\ globalSession'.accessToken # None) =>
           globalSession'.accessExpires >= globalSession.accessExpires]_vars

\* C20: the step in which the listener of a manager with no refresh in
\* progress handles a session-rotation-detected or session-recovery-needed
\* message of another tab sets the debounce timer whose callback calls
\* ensureFresh()
C20_RotationMessageStartsRefresh ==
  [][\A m \in clients :
       (/\ m \in clients' /\ inbox[m] # <<>> /\ inbox'[m] = Tail(inbox[m])
        /\ Head(inbox[m]).type \in
             {"session-rotation-detected", "session-recovery-needed"}
        /\ ~refreshInProgress[m]) =>
          debounce'[m] = debounce[m] + 1]_vars

\* C21: a refresh the message listener started leaves the Session of the
\* manager, the global session and the metadata as they are when it fails,
\* with an authentication failure or with any other failure
C21_BackgroundFailureClearsNothing ==
  [][\A c \in Callers :
       (Settled(c) /\ calls[c].origin = "listener"
          /\ calls'[c].outcome = "rejected") =>
         /\ session'[calls[c].mgr] = session[calls[c].mgr]
         /\ globalSession' = globalSession
         /\ sessionMeta' = sessionMeta]_vars

\* C22: the step in which a refresh of a manager succeeds, or its code
\* exchange, puts one session-updated message with the Session it installed
\* on the channel, where the other manager of the page receives it; the step
\* in which a refresh or an exchange fails puts no session-updated message on
\* the channel
C22_SessionUpdatedBroadcast ==
  [][\A m \in clients, r \in clients :
       r # m =>
         /\ (RefreshSucceeded(m) \/ (Ended("session") /\ callback.mgr = m)) =>
               inbox'[r] = Append(inbox[r],
                             [type |-> "session-updated", session |-> session'[m]])
         /\ (\/ Ended("exchangeFailed") /\ callback.mgr = m
             \/ \E c \in Callers : Settled(c) /\ calls[c].mgr = m
                                      /\ calls'[c].outcome = "rejected") =>
               (Len(inbox'[r]) > Len(inbox[r]) =>
                  inbox'[r][Len(inbox'[r])].type # "session-updated")]_vars

\* k1 holds the tokens of a refresh or an exchange, and k2 has the message
\* with this Session to handle
C22_Witness ==
  /\ clients = Managers
  /\ session["k1"].accessToken # None
  /\ inbox["k2"] = <<[type |-> "session-updated", session |-> session["k1"]]>>
  /\ session["k2"] # session["k1"]

\* C23: a manager whose Session is as recoverSession() leaves it after an
\* authentication failure (no token, no expiries, the user kept) gets a token
\* again only in the step in which the code exchange of a new login succeeds,
\* never through a refresh
C23_RecoveryIsTerminal ==
  [][\A m \in clients :
       (/\ session[m].accessToken = None /\ session[m].accessExpires = None
        /\ session[m].user # Null
        /\ m \in clients' /\ session'[m].accessToken # None) =>
          callback.pc = "exchange"]_vars

\* C24: authenticate() resolves only with a Session whose access token is
\* there and has not expired, be it the Session of the code exchange or the
\* one its silent refresh returned
C24_AuthenticateResolvesAuthenticated ==
  [][/\ \A c \in Callers :
          (/\ calls[c].pc # "done" /\ calls'[c].pc = "done"
           /\ calls'[c].origin = "authenticate"
           /\ calls'[c].outcome = "resolved") =>
             HasValidToken(calls'[c].ret, now)
     /\ (callback.pc = "exchange" /\ callback'.outcome = "session") =>
          HasValidToken(session'[callback.mgr], now)]_vars

\* C25: a call of ensureFresh() that found its manager's refreshInProgress
\* flag set sends no request, polls the flag at most MaxPolls times, and ends
\* by resolving with the Session the manager holds then, also while the
\* refresh is still going on (unless the page is left first)
C25_PollingCallGivesUp ==
  [][\A c \in Callers :
       (calls[c].pc = "poll" /\ calls[c].mgr \in clients') =>
         /\ calls[c].reqs = 0 /\ calls'[c].reqs = 0
         /\ calls'[c].polls <= MaxPolls
         /\ \/ calls'[c] = calls[c]
            \/ /\ calls'[c].pc = "done" /\ calls'[c].outcome = "resolved"
               /\ calls'[c].polls > calls[c].polls
               /\ calls'[c].ret = session'[calls[c].mgr]
               /\ session' = session /\ refreshInProgress' = refreshInProgress
               /\ refreshLock' = refreshLock]_vars

C25_Witness ==
  \E c \in Callers :
    /\ calls[c].pc = "done" /\ calls[c].polls = MaxPolls /\ calls[c].reqs = 0
    /\ refreshInProgress[calls[c].mgr]
    /\ \E d \in Callers : calls[d].mgr = calls[c].mgr /\ calls[d].pc = "fetch"
    /\ calls[c].ret = session[calls[c].mgr]

\* C26: a storage that throws does not keep a login from completing: a
\* redirectToLogin() that has started ends only by the browser leaving the
\* page, never by a rejection
C26_StorageFailureNeverRejects ==
  [][(login.pc = "challenge" /\ login' # login) =>
       (login'.pc = "idle" /\ clients' = {})]_vars

\* C27: createOpenAIClient() throws whenever the Session has no ephemeral key
\* or the key's expiry is not in the future, whatever the state of the access
\* token, and otherwise returns a client whose key is the Session's ephemeral
\* key
C27_OpenAIClientNeedsLiveKey ==
  [][\A m \in clients :
       (openaiResult' # openaiResult /\ openaiResult'.mgr = m) =>
          IF session[m].ephemeralKey = None \/ session[m].ephemeralExpires <= now
            THEN openaiResult'.error # Null /\ openaiResult'.apiKey = None
            ELSE openaiResult'.error = Null
                   /\ openaiResult'.apiKey = session[m].ephemeralKey]_vars

\* a client was refused for its expired key although the access token is
\* fresh
C27_Witness ==
  /\ openaiResult.mgr = "k1"
  /\ openaiResult.error = "keyExpired"
  /\ session["k1"].ephemeralKey # None
  /\ HasValidToken(session["k1"], now)

\* C28: the pending-request load returns no request from an envelope whose
\* expiresAt is earlier than now or whose version is not the current one, and
\* removes such an envelope; from any other envelope it returns the request,
\* and by itself leaves the envelope in storage
C28_LoadDropsStaleEnvelopes ==
  [][(retrieved' # retrieved /\ retrieved'.at # None) =>
       /\ retrieved'.envelope = pending /\ retrieved'.at = now
       /\ IF pending = Absent
            THEN retrieved'.request = Null /\ pending' = Absent
          ELSE IF pending.expiresAt < now \/ pending.version # STATE_VERSION
            THEN retrieved'.request = Null /\ pending' = Absent
          ELSE /\ retrieved'.request = pending.request
               /\ resumeCheck' = resumeCheck => pending' = pending]_vars

\* a load has found an envelope of the current version that had run out
C28_Witness ==
  /\ retrieved.envelope # Absent
  /\ retrieved.envelope.version = STATE_VERSION
  /\ retrieved.envelope.expiresAt < retrieved.at
  /\ retrieved.request = Null
  /\ pending = Absent

C30_NeverDeletedWithoutDelivery ==
  [][(/\ pending # Absent /\ pending.version = STATE_VERSION
      /\ pending.expiresAt >= now
      /\ pending' = Absent) =>
       \E cb \in ResumeCallbacks :
          delivered'[cb] = Append(delivered[cb], pending.request)]_vars

\* C31: the global session is written only in the step in which a refresh
\* whose call holds the refresh lock succeeds, or in which the code exchange
\* of a redirect callback succeeds (or when the page is left)
C31_GlobalSessionWriters ==
  [][globalSession' # globalSession =>
       \/ clients' = {}
       \/ \E c \in Callers :
            /\ Settled(c) /\ calls'[c].outcome = "resolved"
            /\ refreshLock.isLocked /\ refreshLock.currentRefreshPromise = c
       \/ callback.pc = "exchange" /\ callback'.outcome = "session"]_vars

\* C32: a step that clears the Session, be it the recovery after a refresh
\* that failed for authentication or the handling of a logout message, leaves
\* the stored verifier, state and return URL as they are
C32_ClearingKeepsPKCE ==
  [][(\/ \E c \in Callers : Settled(c) /\ calls'[c].outcome = "rejected"
      \/ \E m \in clients :
           /\ inbox[m] # <<>> /\ Head(inbox[m]) = LogoutMessage
           /\ inbox'[m] = Tail(inbox[m]) /\ m \in clients') =>
       pkce' = pkce]_vars

\* C33: when the token response that ends the code exchange carries a user
\* record, the Session installed in that step has it as its user
C33_UserFromTokenResponse ==
  [][(/\ callback.pc = "exchange" /\ callback'.outcome = "session"
      /\ callback'.responseUser # Null) =>
       session'[callback.mgr].user = callback'.responseUser]_vars

\* C36: on a page whose login has completed and whose profile fetch has put a
\* user into the Session, no step of ensureFresh() or checkAuthStatus() takes
\* that user away or replaces it
C36_ProfileUserKept ==
  [][\A m \in clients :
       (/\ callback.outcome = "session" /\ ~callback.profile /\ callback.mgr = m
        /\ session[m].user # Null
        /\ m \in clients' /\ callback' = callback) =>
         session'[m].user = session[m].user]_vars

\* C34: a manager comes to hold an access token it did not hold before only
\* in a step in which its own refresh or its own code exchange succeeds: never
\* by construction, by a call of ensureFresh() or checkAuthStatus(), or by the
\* success of another key's manager on the page
C34_NoSessionAcrossKeys ==
  [][\A m \in clients' :
       (/\ session'[m].accessToken # None
        /\ session'[m].accessToken # session[m].accessToken) =>
          \/ RefreshSucceeded(m)
          \/ /\ callback.pc = "exchange" /\ callback.mgr = m
             /\ callback'.outcome = "session"]_vars

\* C35: a refresh request that is still out after the Session of its manager
\* was cleared by signOut() or by a logout message (the manager's
\* refreshInProgress flag was reset under it) does not give the manager an
\* access token again, nor the storage its metadata
C35_SignOutIsFinal ==
  [][\A c \in Callers :
       LET m == calls[c].mgr IN
       (/\ calls[c].pc = "fetch" /\ ~refreshInProgress[m]
        /\ session[m].accessToken = None /\ sessionMeta = Absent) =>
         (session'[m].accessToken = None /\ sessionMeta' = Absent)]_vars

\* C37: the Session a call of ensureFresh() resolves with has an ephemeral key
\* that has not expired, so that createOpenAIClient() on it would not throw
C37_ResolvedSessionHasLiveKey ==
  [][\A c \in Callers :
       (/\ calls[c].pc # "done" /\ calls'[c].pc = "done"
        /\ calls'[c].outcome = "resolved") =>
          createOpenAIClient(calls'[c].ret, now).error = Null]_vars

\* C38: handleRedirectCallback() sends the code exchange only when the URL
\* carries a state and storage holds that same state
C38_ExchangeNeedsStoredState ==
  [][(callback.pc # "exchange" /\ callback'.pc = "exchange") =>
       /\ ReadParams(location).state # Null
       /\ pkce.state = ReadParams(location).state]_vars

\* ---------------------------------------------------------------------------
\* every ensureFresh() ends (ensureFresh 224-335, _performRefresh 346-352)
\* ---------------------------------------------------------------------------

\* the token endpoint settles the request of call c: fetch() throws, or an
\* answer arrives
RequestSettles(c) ==
  \/ FetchThrows(c)
  \/ \E st \in {401, 500} : ErrorResponse(c, st, "neutral", FALSE)
  \/ \E e \in ExpiresInChoices : TokenResponse(c, e, TRUE, FALSE)

\* a page with one manager whose calls refresh, wait for the shared promise or
\* poll the flag, while the application signs out at times
NextLive ==
  \/ Construct("k1")
  \/ CallEnsureFresh("k1")
  \/ \E c \in Callers : PollTimer(c)
  \/ \E c \in Callers : RetryTimer(c)
  \/ Forget
  \/ SignOut("k1")
  \/ \E c \in Callers : RequestSettles(c)

\* every request sent to the token endpoint settles, every timer set with
\* setTimeout fires, and a settled call's continuation runs
Fairness ==
  /\ \A c \in Callers : SF_vars(RequestSettles(c))
  /\ \A c \in Callers : SF_vars(PollTimer(c))
  /\ \A c \in Callers : SF_vars(RetryTimer(c))
  /\ WF_vars(Forget)

SpecLive == Init /\ [][NextLive]_vars /\ Fairness

\* C39: every call of ensureFresh() that is under way (refreshing, waiting for
\* the shared promise or polling the flag) ends, resolved or rejected, and
\* the refresh that holds the shared lock gives it up
C39_EnsureFreshEnds ==
  /\ \A c \in Callers :
       (calls[c].pc \notin {"idle", "done"}) ~> (calls[c].pc = "done")
  /\ \A c \in Callers :
       (refreshLock.isLocked /\ refreshLock.currentRefreshPromise = c) ~>
         ~(refreshLock.isLocked /\ refreshLock.currentRefreshPromise = c)
  /\ []((\A c \in Callers : calls[c].pc \in {"idle", "done"}) =>
          ~refreshLock.isLocked)

\* a refresh holds the lock while one call waits for its promise and another
\* polls the flag
C39_Witness ==
  \E a, b, c \in Callers :
    /\ calls[a].pc = "fetch"
    /\ refreshLock.isLocked /\ refreshLock.currentRefreshPromise = a
    /\ calls[b].pc = "awaitShared" /\ calls[b].awaiting = a
    /\ calls[c].pc = "poll"

\* ---------------------------------------------------------------------------
\* the flag and the lock against the refreshes in flight
\* (ensureFresh 306-335, clearSession 808-837, the lock 14-26)
\* ---------------------------------------------------------------------------

\* C40: between tasks a manager's refreshInProgress is true exactly when one of
\* its calls has a refresh in flight, and the lock is held exactly when its
\* promise is set and is the promise of a refresh still in flight
C40_FlagAndLockMatchRefresh ==
  /\ \A m \in clients :
       refreshInProgress[m] <=>
         (\E c \in Callers : calls[c].mgr = m /\ calls[c].pc \in RefreshPhases)
  /\ refreshLock.isLocked <=>
       (/\ refreshLock.currentRefreshPromise # Null
        /\ calls[refreshLock.currentRefreshPromise].pc \in RefreshPhases)

====
